---- MODULE Spec2Model ----
(***************************************************************************)
(* The Samurai identifier splitter (spiral/samurai.py): samurai_split and  *)
(* same_case_split as a state machine.  A token is a sequence of           *)
(* one-character strings.  The corpus frequency model and the dictionary   *)
(* are external read-only oracles: the dictionary is a fixed set of words, *)
(* and the frequency of a token is decided the first time the program asks *)
(* for it and stays the same afterwards (freq records the answers given so *)
(* far).                                                                   *)
(***************************************************************************)
EXTENDS Integers, Sequences, FiniteSets, TLC

VARIABLES
    pc,        \* where samurai_split is: "idle", "transition", "same_case", "direct", "done"
    call,      \* the call under way, with its arguments
    segs,      \* the segments of simple_split still to be looked at
    outcomes,  \* each segment looked at so far, with its parts (the 'split outcome' lines of the debug log)
    splits,    \* the tokens still to be handed to same_case_split
    results,   \* the tokens returned so far
    stack,     \* the activations of same_case_split, the innermost last
    freq       \* the corpus: the frequency of every token asked about so far

vars == <<pc, call, segs, outcomes, splits, results, stack, freq>>

\* ---------------------------------------------------------------- bounds

\* Largest number of tokens the corpus knows (frequency of 30 or more)
\* among the tokens one call asks about.
MaxKnown == 4

\* Frequencies the corpus may report for a token: one below the noise
\* threshold of 30, the threshold itself, and 6^5, a count of which
\* math.pow(count, 1.0/2.5) is the floating-point number just above 36.
FreqValues == {29, 30, 7776}

\* Floors score_ns handed to same_case_split when it is called directly
\* (the default, 0.0000005, decides every comparison of this model as 0
\* does; 36 is the floor a piece of frequency 6^5 passes by rounding only).
NsValues == {0, 36}

\* ------------------------------------------------------- global constants

prefix_list ==
    {"afro", "ambi", "amphi", "ana", "anglo", "apo", "astro", "bi", "bio",
     "circum", "cis", "co", "col", "com", "con", "contra", "cor", "cryo",
     "crypto", "de", "de", "demi", "di", "dif", "dis", "du", "duo", "eco",
     "electro", "em", "en", "epi", "euro", "ex", "franco", "geo", "hemi",
     "hetero", "homo", "hydro", "hypo", "ideo", "idio", "il", "im", "infra",
     "inter", "intra", "ir", "iso", "macr", "mal", "maxi", "mega", "megalo",
     "micro", "midi", "mini", "mis", "mon", "multi", "neo", "omni", "paleo",
     "para", "ped", "peri", "poly", "pre", "preter", "proto", "pyro", "re",
     "retro", "semi", "socio", "supra", "sur", "sy", "syl", "sym", "syn",
     "tele", "trans", "tri", "twi", "ultra", "un", "uni"}

suffix_list ==
    {"a", "ac", "acea", "aceae", "acean", "aceous", "ade", "aemia",
     "agogue", "aholic", "al", "ales", "algia", "amine", "ana", "anae",
     "ance", "ancy", "androus", "andry", "ane", "ar", "archy", "ard",
     "aria", "arian", "arium", "ary", "ase", "athon", "ation", "ative",
     "ator", "atory", "biont", "biosis", "cade", "caine", "carp", "carpic",
     "carpous", "cele", "cene", "centric", "cephalic", "cephalous",
     "cephaly", "chory", "chrome", "cide", "clast", "clinal", "cline",
     "coccus", "coel", "coele", "colous", "cracy", "crat", "cratic",
     "cratical", "cy", "cyte", "derm", "derma", "dermatous", "dom", "drome",
     "dromous", "eae", "ectomy", "ed", "ee", "eer", "ein", "eme", "emia",
     "en", "ence", "enchyma", "ency", "ene", "ent", "eous", "er", "ergic",
     "ergy", "es", "escence", "escent", "ese", "esque", "ess", "est", "et",
     "eth", "etic", "ette", "ey", "facient", "fer", "ferous", "fic",
     "fication", "fid", "florous", "foliate", "foliolate", "fuge", "ful",
     "fy", "gamous", "gamy", "gen", "genesis", "genic", "genous", "geny",
     "gnathous", "gon", "gony", "grapher", "graphy", "gyne", "gynous",
     "gyny", "ia", "ial", "ian", "iana", "iasis", "iatric", "iatrics",
     "iatry", "ibility", "ible", "ic", "icide", "ician", "ick obsolete",
     "ics", "idae", "ide", "ie", "ify", "ile", "ina", "inae", "ine",
     "ineae", "ing", "ini", "ious", "isation", "ise", "ish", "ism", "ist",
     "istic", "istical", "istically", "ite", "itious", "itis", "ity", "ium",
     "ive", "ization", "ize", "kinesis", "kins", "latry", "lepry", "ling",
     "lite", "lith", "lithic", "logue", "logist", "logy", "ly", "lyse",
     "lysis", "lyte", "lytic", "lyze", "mancy", "mania", "meister", "ment",
     "merous", "metry", "mo", "morph", "morphic", "morphism", "morphous",
     "mycete", "mycetes", "mycetidae", "mycin", "mycota", "mycotina",
     "ness", "nik", "nomy", "odon", "odont", "odontia", "oholic", "oic",
     "oid", "oidea", "oideae", "ol", "ole", "oma", "ome", "ont", "onym",
     "onymy", "opia", "opsida", "opsis", "opsy", "orama", "ory", "ose",
     "osis", "otic", "otomy", "ous", "para", "parous", "pathy", "ped",
     "pede", "penia", "phage", "phagia", "phagous", "phagy", "phane",
     "phasia", "phil", "phile", "philia", "philiac", "philic", "philous",
     "phobe", "phobia", "phobic", "phony", "phore", "phoresis", "phorous",
     "phrenia", "phyll", "phyllous", "phyceae", "phycidae", "phyta",
     "phyte", "phytina", "plasia", "plasm", "plast", "plasty", "plegia",
     "plex", "ploid", "pode", "podous", "poieses", "poietic", "pter",
     "rrhagia", "rrhea", "ric", "ry", "s", "scopy", "sepalous", "sperm",
     "sporous", "st", "stasis", "stat", "ster", "stome", "stomy", "taxy",
     "th", "therm", "thermal", "thermic", "thermy", "thon", "thymia",
     "tion", "tome", "tomy", "tonia", "trichous", "trix", "tron", "trophic",
     "tropism", "tropous", "tropy", "tude", "ty", "ular", "ule", "ure",
     "urgy", "uria", "uronic", "urous", "valent", "virile", "vorous", "xor",
     "y", "yl", "yne", "zoic", "zoon", "zygous", "zyme"}


\* ---------------------------------------------------------------- inputs

\* The identifiers samurai_split is called with.
Identifiers ==
    {<<"t", "o", "M", "a", "x">>,
     <<"M", "a", "x">>,
     <<"M", "A", "X">>,
     <<"a", "_", "t", "o", "M", "e">>}

\* The tokens same_case_split is called with directly.
Tokens ==
    {<<"x", "z", "x", "z", "x", "z", "x">>,
     <<"u", "v", "a", "l">>,
     <<"u", "n", "m", "a", "p">>,
     <<"I", "N", "T", "O">>,
     <<"x">>}

\* _dictionary (line 34): the words of the dictionary among the pieces of
\* these inputs, in lower case.
Dictionary ==
    {<<"t", "o">>,
     <<"m", "e">>,
     <<"a", "x">>,
     <<"m", "a", "p">>,
     <<"i", "n", "t", "o">>}

\* The characters str.lower() and the regular expression [A-Z][a-z] tell apart.
UpperLetters ==
    <<"A", "B", "C", "D", "E", "F", "G", "H", "I", "J", "K", "L", "M",
      "N", "O", "P", "Q", "R", "S", "T", "U", "V", "W", "X", "Y", "Z">>

LowerLetters ==
    <<"a", "b", "c", "d", "e", "f", "g", "h", "i", "j", "k", "l", "m",
      "n", "o", "p", "q", "r", "s", "t", "u", "v", "w", "x", "y", "z">>

IsUpper(c) == \E k \in DOMAIN UpperLetters : UpperLetters[k] = c

IsLower(c) == \E k \in DOMAIN LowerLetters : LowerLetters[k] = c

LowerChar(c) ==
    IF IsUpper(c)
    THEN LowerLetters[CHOOSE k \in DOMAIN UpperLetters : UpperLetters[k] = c]
    ELSE c

\* str.lower()
lower(s) == [k \in 1..Len(s) |-> LowerChar(s[k])]

\* The token as one string, to look it up in the affix lists.
RECURSIVE Str(_)
Str(s) == IF s = <<>> THEN "" ELSE Head(s) \o Str(Tail(s))

\* Python's s[a:b], indices from 0.
Slice(s, a, b) == SubSeq(s, a + 1, b)

\* The concatenation of a list of tokens.
RECURSIVE Concat(_)
Concat(list) == IF list = <<>> THEN <<>> ELSE Head(list) \o Concat(Tail(list))

\* ------------------------------------------------------------- utilities

\* frequencies.word_frequency: the corpus count of w, whatever its case.
word_frequency(F, w) == F[lower(w)]

score(F, w) ==
    LET f == word_frequency(F, w)
    IN  IF f < 30 THEN 0 ELSE f

\* A slip of in_dictionary: the word is looked up as it is written.
in_dictionary_CaseSensitive(word) == word \in Dictionary

in_dictionary(word) == lower(word) \in Dictionary

is_prefix(s) == Str(lower(s)) \in prefix_list

is_suffix(s) == Str(lower(s)) \in suffix_list

\* math.pow(value, 1.0/2) and math.pow(value, 1.0/2.5) are floating-point
\* numbers; a number x is kept as the pair of integers around it,
\* lo <= x <= hi with hi - lo <= 1 and lo = hi exactly when x is an
\* integer, which decides every comparison of x with an integer.  The
\* square root of a perfect square is exact.  1.0/2.5 is the double just
\* above 2/5, so math.pow(t^5, 1.0/2.5) is t^2 exactly only for t <= 2; for
\* t >= 3 it is the double just above t^2 (9.000000000000002 for 243,
\* 36.00000000000001 for 7776).  Of any other count below 2 * 10^6 the
\* result lies strictly between the two integers around the real root.
Pow5(r) == r * r * r * r * r

SqrtFloor(v) == CHOOSE r \in 0..v : r * r <= v /\ (r + 1) * (r + 1) > v

Root25Floor(v) == CHOOSE r \in 0..v : Pow5(r) <= v * v /\ Pow5(r + 1) > v * v

Exact(n) == [lo |-> n, hi |-> n]

PowHalf(value) ==
    LET r == SqrtFloor(value)
    IN  [lo |-> r, hi |-> IF r * r = value THEN r ELSE r + 1]

PowTwoFifths(value) ==
    LET r == Root25Floor(value)
    IN  [lo |-> r, hi |-> IF Pow5(r) = value * value /\ r <= 4 THEN r ELSE r + 1]

\* x > t and c > x for a real x and integers t, c.
RealGreater(x, t) == x.hi > t

GreaterReal(c, x) == c > x.lo

\* A slip of rescale: no test for tokens of at most one character.
rescale_NoShortTest(token, value) ==
    IF Len(token) <= 4 /\ token # <<>> /\ lower(token) \in Dictionary
    THEN PowHalf(value)
    ELSE PowTwoFifths(value)

rescale(token, value) ==
    IF Len(token) <= 1 THEN Exact(0)
    ELSE IF Len(token) <= 4 /\ in_dictionary(token) THEN PowHalf(value)
    ELSE PowTwoFifths(value)

Max(a, b) == IF a >= b THEN a ELSE b

\* simple_splitters.simple_split: the segments between the delimiters, in
\* order, without the delimiters and without empty segments.
Delimiters == {"_"}

RECURSIVE SplitAt(_, _)
SplitAt(s, cur) ==
    IF s = <<>> THEN (IF cur = <<>> THEN <<>> ELSE <<cur>>)
    ELSE IF Head(s) \in Delimiters
         THEN (IF cur = <<>> THEN <<>> ELSE <<cur>>) \o SplitAt(Tail(s), <<>>)
         ELSE SplitAt(Tail(s), Append(cur, Head(s)))

simple_split(id) == SplitAt(id, <<>>)

\* re.search(r'[A-Z][a-z]', s): the index (from 0) of the first upper-case
\* letter followed by a lower-case one, -1 when there is none.
TransitionAt(s, i) == IsUpper(s[i + 1]) /\ IsLower(s[i + 2])

transition(s) ==
    IF \E i \in 0..(Len(s) - 2) : TransitionAt(s, i)
    THEN CHOOSE i \in 0..(Len(s) - 2) :
             /\ TransitionAt(s, i)
             /\ \A j \in 0..(i - 1) : ~TransitionAt(s, j)
    ELSE -1

\* ------------------------------------------------------------ the oracles

\* The corpus has no entry for the empty token.
FreqChoices(w) == IF w = <<>> THEN {0} ELSE FreqValues

Known(F) == {w \in DOMAIN F : F[w] >= 30}

\* The corpus after it has been asked about the tokens of W: the answers
\* already given stay, each new token gets a frequency.
Answers(W) ==
    LET new == {lower(w) : w \in W} \ DOMAIN freq
    IN  {F \in {g @@ freq : g \in [new -> FreqValues \cup {0}]} :
            /\ \A w \in new : F[w] \in FreqChoices(w)
            /\ Cardinality(Known(F)) <= MaxKnown}

\* ---------------------------------------------------------- samurai_split

\* Lines 124-129.
CamelScore(F, s, i) ==
    IF i > 0 THEN score(F, Slice(s, i, Len(s))) ELSE score(F, s)

\* Line 130.
Alt(s, i) == Slice(s, i + 1, Len(s))

\* A slip of line 133: >= for >.
IncludeUpper_OrEqual(F, s, i) ==
    ~RealGreater(rescale(Alt(s, i), score(F, Alt(s, i))), CamelScore(F, s, i))

\* Line 133: camel_score > rescale(alt, alt_score).
IncludeUpper(F, s, i) ==
    GreaterReal(CamelScore(F, s, i), rescale(Alt(s, i), score(F, Alt(s, i))))

\* A slip of line 142: the second part starts after the next character.
Parts_SkipsCharacter(F, s) ==
    LET i == transition(s)
    IN  IF i < 0 THEN <<s>>
        ELSE IF IncludeUpper(F, s, i)
             THEN (IF i > 0 THEN <<Slice(s, 0, i), Slice(s, i, Len(s))>>
                            ELSE <<s>>)
             ELSE <<Slice(s, 0, i + 1), Slice(s, i + 2, Len(s))>>

\* A slip of lines 136-139: no test for a transition at index 0.
Parts_NoTestForStart(F, s) ==
    LET i == transition(s)
    IN  IF i < 0 THEN <<s>>
        ELSE IF IncludeUpper(F, s, i)
             THEN <<Slice(s, 0, i), Slice(s, i, Len(s))>>
             ELSE <<Slice(s, 0, i + 1), Slice(s, i + 1, Len(s))>>

\* Lines 117-143: the parts of one segment s.
Parts(F, s) ==
    LET i == transition(s)
    IN  IF i < 0 THEN <<s>>
        ELSE IF IncludeUpper(F, s, i)
             THEN (IF i > 0 THEN <<Slice(s, 0, i), Slice(s, i, Len(s))>>
                            ELSE <<s>>)
             ELSE <<Slice(s, 0, i + 1), Slice(s, i + 1, Len(s))>>

\* The tokens this step asks the corpus about.
PartsAsked(s) ==
    LET i == transition(s)
    IN  IF i < 0 THEN {}
        ELSE {IF i > 0 THEN Slice(s, i, Len(s)) ELSE s, Alt(s, i)}

\* ------------------------------------------------------- same_case_split

\* One activation of same_case_split: its arguments, its local variables,
\* where it is (at), the cases its scan has met so far (log) and, once it
\* has returned, what it returned (result).
NewFrame(s, score_ns) ==
    [s |-> s, score_ns |-> score_ns, at |-> "entry", i |-> 0, split |-> <<>>,
     max_score |-> -1, threshold |-> 0, log |-> <<>>, result |-> <<>>]

\* Lines 178-179.
Left(f) == Slice(f.s, 0, f.i)

Right(f) == Slice(f.s, f.i, Len(f.s))

\* A slip of line 182: the suffix list is not consulted.
prefix_LeftOnly(left, right) == is_prefix(left)

\* Line 182.
prefix(left, right) == is_prefix(left) \/ is_suffix(right)

\* Lines 183-184: rescale(token, score) > threshold.
to_split(token, sc, threshold) == RealGreater(rescale(token, sc), threshold)

\* Line 189: not prefix and to_split_l and to_split_r.
IsCase1(F, f) ==
    /\ to_split(Left(f), score(F, Left(f)), f.threshold)
    /\ to_split(Right(f), score(F, Right(f)), f.threshold)
    /\ ~prefix(Left(f), Right(f))

\* A slip of line 198: left is not tested.
IsCase2_LeftNotTested(F, f) ==
    /\ ~IsCase1(F, f)
    /\ ~prefix(Left(f), Right(f))

\* Line 198: otherwise, not prefix and to_split_l.
IsCase2(F, f) ==
    /\ ~IsCase1(F, f)
    /\ to_split(Left(f), score(F, Left(f)), f.threshold)
    /\ ~prefix(Left(f), Right(f))

\* A slip of line 191: >= for >.
Case1Better_OrEqual(score_l, score_r, max_score) == score_l + score_r >= max_score

\* Line 191.
Case1Better(score_l, score_r, max_score) == score_l + score_r > max_score

\* A slip of line 201: a case-2 result gives way to a recorded case-1 cut.
Case2Accepted_UnlessCase1(f, tmp) == tmp[1] # Right(f) /\ f.max_score < 0

\* Line 201: tmp[0] != right.
Case2Accepted(f, tmp) == tmp[1] # Right(f)

\* Lines 193-194: the case-1 cut is recorded.
Case1Recorded(f, score_l, score_r) ==
    [f EXCEPT !.max_score = score_l + score_r, !.split = <<Left(f), Right(f)>>]

\* A slip of line 202: left is left out.
Case2Recorded_WithoutLeft(f, tmp) == [f EXCEPT !.split = tmp]

\* Line 202: the case-2 cut is recorded.
Case2Recorded(f, tmp) == [f EXCEPT !.split = <<Left(f)>> \o tmp]

\* Line 206, and the case met at this index goes to the log.
Advance(f, entry) == [f EXCEPT !.at = "scan", !.log = Append(@, entry), !.i = @ + 1]

\* Line 207.
Result(f) == IF f.split # <<>> THEN f.split ELSE <<f.s>>

Top == stack[Len(stack)]

Caller == stack[Len(stack) - 1]

SetTop(f) == [stack EXCEPT ![Len(stack)] = f]

Pop == SubSeq(stack, 1, Len(stack) - 1)

Scanning == stack # <<>> /\ Top.at = "scan" /\ Top.i < Len(Top.s)

Returned == stack # <<>> /\ Top.at = "return"

LogEntry(case, i, sum, tmp) == [case |-> case, i |-> i, sum |-> sum, tmp |-> tmp]

\* ------------------------------------------------------------------ Init

Init ==
    /\ pc = "idle"
    /\ call = [name |-> "none"]
    /\ segs = <<>>
    /\ outcomes = <<>>
    /\ splits = <<>>
    /\ results = <<>>
    /\ stack = <<>>
    /\ freq = <<>>

\* --------------------------------------------------------------- actions

\* samurai_split(identifier) is called: simple_split gives the segments.
SamuraiSplit ==
    /\ pc = "idle"
    /\ \E x \in Identifiers :
        /\ call' = [name |-> "samurai_split", identifier |-> x]
        /\ segs' = simple_split(x)
        /\ pc' = IF simple_split(x) = <<>> THEN "done" ELSE "transition"
    /\ UNCHANGED <<outcomes, splits, results, stack, freq>>

\* One iteration of the first loop: the case transition of the next segment.
CaseTransition ==
    /\ pc = "transition"
    /\ \E F \in Answers(PartsAsked(Head(segs))) :
        /\ freq' = F
        /\ splits' = splits \o Parts(F, Head(segs))
        /\ outcomes' = Append(outcomes, [s |-> Head(segs), parts |-> Parts(F, Head(segs))])
    /\ segs' = Tail(segs)
    /\ pc' = IF Tail(segs) = <<>> THEN "same_case" ELSE "transition"
    /\ UNCHANGED <<call, results, stack>>

\* One iteration of the second loop calls same_case_split(token, score(token)).
SplitToken ==
    /\ pc = "same_case"
    /\ stack = <<>>
    /\ \E F \in Answers({Head(splits)}) :
        /\ freq' = F
        /\ stack' = <<NewFrame(Head(splits), score(F, Head(splits)))>>
    /\ splits' = Tail(splits)
    /\ UNCHANGED <<pc, call, segs, outcomes, results>>

\* ... and appends what it returns to the results.
Collect ==
    /\ pc = "same_case"
    /\ Len(stack) = 1
    /\ Returned
    /\ results' = results \o Top.result
    /\ stack' = <<>>
    /\ pc' = IF splits = <<>> THEN "done" ELSE "same_case"
    /\ UNCHANGED <<call, segs, outcomes, splits, freq>>

\* same_case_split(s, score_ns) is called directly.
SameCaseSplit ==
    /\ pc = "idle"
    /\ \E s \in Tokens, score_ns \in NsValues :
        /\ call' = [name |-> "same_case_split", s |-> s, score_ns |-> score_ns]
        /\ stack' = <<NewFrame(s, score_ns)>>
    /\ pc' = "direct"
    /\ UNCHANGED <<segs, outcomes, splits, results, freq>>

DirectReturn ==
    /\ pc = "direct"
    /\ Len(stack) = 1
    /\ Returned
    /\ results' = Top.result
    /\ stack' = <<>>
    /\ pc' = "done"
    /\ UNCHANGED <<call, segs, outcomes, splits, freq>>

\* Lines 164-166: a token of fewer than two characters is returned as it is.
ReturnShort ==
    /\ stack # <<>>
    /\ Top.at = "entry"
    /\ Len(Top.s) < 2
    /\ stack' = SetTop([Top EXCEPT !.at = "return", !.result = <<Top.s>>])
    /\ UNCHANGED <<pc, call, segs, outcomes, splits, results, freq>>

\* Lines 167-169: so is a dictionary word.
ReturnWord ==
    /\ stack # <<>>
    /\ Top.at = "entry"
    /\ Len(Top.s) > 1
    /\ in_dictionary(Top.s)
    /\ stack' = SetTop([Top EXCEPT !.at = "return", !.result = <<Top.s>>])
    /\ UNCHANGED <<pc, call, segs, outcomes, splits, results, freq>>

\* Lines 171-175: the scan starts.
BeginScan ==
    /\ stack # <<>>
    /\ Top.at = "entry"
    /\ Len(Top.s) >= 2
    /\ ~in_dictionary(Top.s)
    /\ \E F \in Answers({Top.s}) :
        /\ freq' = F
        /\ stack' = SetTop([Top EXCEPT
                              !.at = "scan",
                              !.threshold = Max(score(F, Top.s), Top.score_ns)])
    /\ UNCHANGED <<pc, call, segs, outcomes, splits, results>>

\* Lines 189-195: case 1, and the cut is the best so far.
Case1Split ==
    /\ Scanning
    /\ \E F \in Answers({Left(Top), Right(Top)}) :
        LET sl == score(F, Left(Top))
            sr == score(F, Right(Top))
        IN  /\ IsCase1(F, Top)
            /\ Case1Better(sl, sr, Top.max_score)
            /\ freq' = F
            /\ stack' = SetTop(Advance(Case1Recorded(Top, sl, sr),
                                        LogEntry(1, Top.i, sl + sr, <<>>)))
    /\ UNCHANGED <<pc, call, segs, outcomes, splits, results>>

\* Lines 196-197: case 1, but an earlier cut scores at least as much.
Case1NoSplit ==
    /\ Scanning
    /\ \E F \in Answers({Left(Top), Right(Top)}) :
        LET sl == score(F, Left(Top))
            sr == score(F, Right(Top))
        IN  /\ IsCase1(F, Top)
            /\ ~Case1Better(sl, sr, Top.max_score)
            /\ freq' = F
            /\ stack' = SetTop(Advance(Top, LogEntry(1, Top.i, sl + sr, <<>>)))
    /\ UNCHANGED <<pc, call, segs, outcomes, splits, results>>

\* Lines 198-200: case 2, the recursive call on right.
Case2Call ==
    /\ Scanning
    /\ \E F \in Answers({Left(Top), Right(Top)}) :
        /\ IsCase2(F, Top)
        /\ freq' = F
        /\ stack' = Append(SetTop([Top EXCEPT !.at = "call"]),
                           NewFrame(Right(Top), Top.score_ns))
    /\ UNCHANGED <<pc, call, segs, outcomes, splits, results>>

\* Lines 201-203: the call split right, and its result is taken.
Case2Split ==
    /\ Len(stack) >= 2
    /\ Returned
    /\ Case2Accepted(Caller, Top.result)
    /\ stack' = [Pop EXCEPT ![Len(stack) - 1] =
                    Advance(Case2Recorded(Caller, Top.result),
                            LogEntry(2, Caller.i, -1, Top.result))]
    /\ UNCHANGED <<pc, call, segs, outcomes, splits, results, freq>>

\* Lines 204-205: the call returned right unsplit.
Case2NoSplit ==
    /\ Len(stack) >= 2
    /\ Returned
    /\ ~Case2Accepted(Caller, Top.result)
    /\ stack' = [Pop EXCEPT ![Len(stack) - 1] =
                    Advance(Caller, LogEntry(2, Caller.i, -1, Top.result))]
    /\ UNCHANGED <<pc, call, segs, outcomes, splits, results, freq>>

\* Neither case at this index: only line 206.
NoCase ==
    /\ Scanning
    /\ \E F \in Answers({Left(Top), Right(Top)}) :
        /\ ~IsCase1(F, Top)
        /\ ~IsCase2(F, Top)
        /\ freq' = F
        /\ stack' = SetTop([Top EXCEPT !.i = @ + 1])
    /\ UNCHANGED <<pc, call, segs, outcomes, splits, results>>

\* Lines 207-209: the scan is over.
Return ==
    /\ stack # <<>>
    /\ Top.at = "scan"
    /\ Top.i >= Len(Top.s)
    /\ stack' = SetTop([Top EXCEPT !.at = "return", !.result = Result(Top)])
    /\ UNCHANGED <<pc, call, segs, outcomes, splits, results, freq>>

Next ==
    \/ SamuraiSplit
    \/ CaseTransition
    \/ SplitToken
    \/ Collect
    \/ SameCaseSplit
    \/ DirectReturn
    \/ ReturnShort
    \/ ReturnWord
    \/ BeginScan
    \/ Case1Split
    \/ Case1NoSplit
    \/ Case2Call
    \/ Case2Split
    \/ Case2NoSplit
    \/ NoCase
    \/ Return

Spec == Init /\ [][Next]_vars


\* ------------------------------------------------------------ properties

Frames == {stack[k] : k \in 1..Len(stack)}

\* The activations that have returned, and those that returned from a scan.
ReturnedFrames == {f \in Frames : f.at = "return"}

ScannedFrames == {f \in ReturnedFrames : f.i > 0}

NonEmptyAll(list) == \A k \in 1..Len(list) : list[k] # <<>>

SamuraiDone == pc = "done" /\ call.name = "samurai_split"

NotDelimiter(c) == c \notin Delimiters

\* The cut of f.s at index j, and what the corpus says about it.
LeftAt(f, j) == Slice(f.s, 0, j)

RightAt(f, j) == Slice(f.s, j, Len(f.s))

SumAt(f, j) == score(freq, LeftAt(f, j)) + score(freq, RightAt(f, j))

\* The indices of the scan of f that are case-1 candidates.
Candidates(f) == {j \in 0..(Len(f.s) - 1) : IsCase1(freq, [f EXCEPT !.i = j])}

\* The positions in the log of f of the case-1 cuts that were the best so
\* far, and of the case-2 cuts whose recursive call split right.
Recorded1(f) ==
    {k \in 1..Len(f.log) :
        /\ f.log[k].case = 1
        /\ \A m \in 1..(k - 1) : f.log[m].case = 1 => f.log[m].sum < f.log[k].sum}

Accepted2(f) ==
    {k \in 1..Len(f.log) :
        /\ f.log[k].case = 2
        /\ f.log[k].tmp[1] # RightAt(f, f.log[k].i)}

Case2ResultAt(f, k) == <<LeftAt(f, f.log[k].i)>> \o f.log[k].tmp

\* C1 as the specification states it: the tokens of samurai_split(x),
\* concatenated, are x character for character, delimiters included.
C1_ReconstructsIdentifier == SamuraiDone => Concat(results) = call.identifier

\* C1, amended: the tokens of samurai_split(x), concatenated, are x without
\* its delimiter characters (and so x itself when x has none).
C1_ReconstructsWithoutDelimiters ==
    SamuraiDone => Concat(results) = SelectSeq(call.identifier, NotDelimiter)

C1_Witness ==
    /\ SamuraiDone
    /\ \E k \in 1..Len(call.identifier) : call.identifier[k] \in Delimiters
    /\ \E k \in 1..Len(outcomes) : Len(outcomes[k].parts) = 2
    /\ Len(results) >= 3

\* C2: what same_case_split(t, score_ns) returns, concatenated, is t, at
\* every depth of the recursion.
C2_Reconstruction == \A f \in ReturnedFrames : Concat(f.result) = f.s

C2_Witness ==
    \E f \in ReturnedFrames : Len(f.result) >= 3 /\ Accepted2(f) # {}

\* C3: no element of what same_case_split returns for a non-empty token,
\* no piece of the case-transition step and no token of the result of
\* samurai_split is empty.
C3_NonEmpty ==
    /\ \A f \in ReturnedFrames : f.s # <<>> => NonEmptyAll(f.result)
    /\ \A k \in 1..Len(outcomes) : NonEmptyAll(outcomes[k].parts)
    /\ NonEmptyAll(splits)
    /\ NonEmptyAll(results)

C3_Witness ==
    /\ SamuraiDone
    /\ \E k \in 1..Len(outcomes) :
          transition(outcomes[k].s) = 0 /\ Len(outcomes[k].parts) = 2
    /\ Len(results) >= 2

\* An upper bound on the steps still to be taken.  A call on a token of n
\* characters takes at most CallWork(n) steps to return, a scan of it
\* that stands at index i at most ScanWork(n, i).
CallWork(n) == 4 ^ n

RECURSIVE ScanWork(_, _)
ScanWork(n, i) ==
    IF i >= n THEN 1
    ELSE (IF i = 0 THEN 1 ELSE 2 + CallWork(n - i)) + ScanWork(n, i + 1)

FrameWork(f) ==
    CASE f.at = "entry" -> CallWork(Len(f.s))
      [] f.at = "scan" -> ScanWork(Len(f.s), f.i)
      [] f.at = "call" -> 1 + ScanWork(Len(f.s), f.i + 1)
      [] f.at = "return" -> 0

TokenWork(t) == 2 + CallWork(Len(t))

SegmentWork(s) == 1 + 2 * TokenWork(s)

RECURSIVE SumOver(_, _)
SumOver(W(_), list) ==
    IF list = <<>> THEN 0 ELSE W(Head(list)) + SumOver(W, Tail(list))

StackWork == IF stack = <<>> THEN 0 ELSE 1 + SumOver(FrameWork, stack)

CallsWork ==
    {SumOver(SegmentWork, simple_split(x)) : x \in Identifiers}
        \cup {TokenWork(t) : t \in Tokens}

Work ==
    CASE pc = "idle" -> 1 + CHOOSE w \in CallsWork : \A v \in CallsWork : v <= w
      [] pc = "done" -> 0
      [] OTHER -> SumOver(SegmentWork, segs) + SumOver(TokenWork, splits) + StackWork

\* Every recursive call is on right at a cut index of at least 1, a
\* strictly shorter token than the caller's, and the recursion is never
\* deeper than the token is long.
C4_RecursionShrinks ==
    /\ \A k \in 2..Len(stack) :
          /\ stack[k - 1].at = "call"
          /\ stack[k - 1].i >= 1
          /\ stack[k].s = Right(stack[k - 1])
          /\ Len(stack[k].s) < Len(stack[k - 1].s)
    /\ stack # <<>> => Len(stack) - 1 <= Len(stack[1].s)

\* C4: every recursive call of same_case_split is on a strictly shorter
\* right (C4_RecursionShrinks at every state), and every run ends: each
\* step takes away from Work, a natural number.
C4_Termination == []C4_RecursionShrinks /\ [][Work >= 0 /\ Work' < Work]_vars

C4_Witness == Len(stack) >= 3 /\ Top.at = "return" /\ Top.i > 0

\* C5: no case is met, and so no cut is chosen, at an index where left is a
\* known prefix or right a known suffix; in a returned split of two or more
\* elements the first is no prefix and the rest together no suffix.
C5_AffixSuppression ==
    \A f \in Frames :
        /\ \A k \in 1..Len(f.log) :
              /\ ~is_prefix(LeftAt(f, f.log[k].i))
              /\ ~is_suffix(RightAt(f, f.log[k].i))
        /\ f.at = "return" /\ Len(f.result) >= 2 =>
              /\ ~is_prefix(f.result[1])
              /\ ~is_suffix(Concat(Tail(f.result)))

\* An affix cut whose two sides both pass the threshold, and no split.
C5_Witness ==
    \E f \in ScannedFrames :
        /\ f.result = <<f.s>>
        /\ \E j \in 1..(Len(f.s) - 1) :
              /\ prefix(LeftAt(f, j), RightAt(f, j))
              /\ to_split(LeftAt(f, j), score(freq, LeftAt(f, j)), f.threshold)
              /\ to_split(RightAt(f, j), score(freq, RightAt(f, j)), f.threshold)

\* The two values the case-transition step compares for segment s with its
\* transition at i, and its two splits.
CamelValue(s, i) == score(freq, Slice(s, i, Len(s)))

AltValue(s, i) == rescale(Alt(s, i), score(freq, Alt(s, i)))

Tie(s, i) ==
    /\ ~GreaterReal(CamelValue(s, i), AltValue(s, i))
    /\ ~RealGreater(AltValue(s, i), CamelValue(s, i))

CamelSplit(s, i) == <<Slice(s, 0, i), Slice(s, i, Len(s))>>

AltSplit(s, i) == <<Slice(s, 0, i + 1), Slice(s, i + 1, Len(s))>>

HigherBranch(o) ==
    LET i == transition(o.s)
    IN  /\ GreaterReal(CamelValue(o.s, i), AltValue(o.s, i)) =>
              o.parts = CamelSplit(o.s, i)
        /\ RealGreater(AltValue(o.s, i), CamelValue(o.s, i)) =>
              o.parts = AltSplit(o.s, i)

\* C6 as the specification states it: the split is that of the branch with
\* the higher value, and at a tie the outcome makes no split.
C6_TieMakesNoSplit ==
    \A k \in 1..Len(outcomes) :
        LET o == outcomes[k]
        IN  transition(o.s) > 0 =>
              /\ HigherBranch(o)
              /\ Tie(o.s, transition(o.s)) => o.parts = <<o.s>>

\* C6, amended: the split is that of the branch with the higher value, and
\* at a tie it is [s[0:i+1], s[i+1:]], the split after the upper-case letter.
C6_TieSplitsAfterUpper ==
    \A k \in 1..Len(outcomes) :
        LET o == outcomes[k]
        IN  transition(o.s) > 0 =>
              /\ HigherBranch(o)
              /\ Tie(o.s, transition(o.s)) =>
                    o.parts = AltSplit(o.s, transition(o.s))

C6_Witness ==
    \E k \in 1..Len(outcomes) :
        LET o == outcomes[k]
        IN  /\ transition(o.s) > 0
            /\ Tie(o.s, transition(o.s))
            /\ o.parts = AltSplit(o.s, transition(o.s))

\* C7 as the specification states it: a case-1 cut recorded at an earlier
\* index and a case-2 cut accepted at a later one: the scan returns the
\* case-2 result.
C7_LaterCase2Returned ==
    \A f \in ScannedFrames :
        \A k1 \in Recorded1(f), k2 \in Accepted2(f) :
            k1 < k2 => f.result = Case2ResultAt(f, k2)

\* C7, amended: a case-1 cut recorded at an earlier index and a case-2 cut
\* accepted at a later one: the scan returns the case-2 result unless a
\* still later index records a split (a case-1 cut that beats the running
\* maximum, or another accepted case-2 cut).
C7_LaterCase2ReturnedUnlessOverwritten ==
    \A f \in ScannedFrames :
        \A k1 \in Recorded1(f), k2 \in Accepted2(f) :
            /\ k1 < k2
            /\ \A k3 \in Recorded1(f) \cup Accepted2(f) : k3 <= k2
            => f.result = Case2ResultAt(f, k2)

C7_Witness ==
    \E f \in ScannedFrames :
        \E k1 \in Recorded1(f), k2 \in Accepted2(f) :
            /\ k1 < k2
            /\ f.log[k1].sum > 60
            /\ f.result = Case2ResultAt(f, k2)

\* C8: a dictionary word of more than one character is never scanned:
\* same_case_split returns it as it is.
C8_DictionaryWordKept ==
    \A f \in Frames :
        Len(f.s) > 1 /\ lower(f.s) \in Dictionary =>
            /\ f.at \in {"entry", "return"}
            /\ f.at = "return" => f.result = <<f.s>>

C8_Witness ==
    \E f \in ReturnedFrames :
        /\ Len(f.s) >= 4
        /\ lower(f.s) \in Dictionary
        /\ f.result = <<f.s>>

\* The largest sum among the case-1 candidates met so far (-1 when there
\* is none), and the earliest candidate of the largest sum.
MaxSum(f) ==
    LET sums == {f.log[k].sum : k \in {m \in 1..Len(f.log) : f.log[m].case = 1}}
    IN  IF sums = {} THEN -1 ELSE CHOOSE x \in sums : \A y \in sums : y <= x

BestCandidate(f) ==
    CHOOSE j \in Candidates(f) :
        \A m \in Candidates(f) :
            \/ SumAt(f, m) < SumAt(f, j)
            \/ SumAt(f, m) = SumAt(f, j) /\ j <= m

\* C9: max_score is the largest sum of the case-1 candidates met so far, and
\* a scan that accepts no case-2 cut returns the case-1 candidate with the
\* largest sum, the earliest of them at a tie, or the token itself when
\* there is no candidate.
C9_Case1Selection ==
    /\ \A f \in Frames : f.max_score = MaxSum(f)
    /\ \A f \in ScannedFrames :
          Accepted2(f) = {} =>
              f.result = IF Candidates(f) = {} THEN <<f.s>>
                         ELSE <<LeftAt(f, BestCandidate(f)),
                                RightAt(f, BestCandidate(f))>>

\* The later of two candidates wins, by its larger sum.
C9_Witness ==
    \E f \in ScannedFrames :
        /\ Accepted2(f) = {}
        /\ Cardinality(Candidates(f)) >= 2
        /\ \E j \in Candidates(f) : j < BestCandidate(f)

\* C10: in a returned split of two or more elements every element has at
\* least two characters and a corpus frequency of at least 30 (a non-zero
\* score); no cut is met at index 0 or 1.
C10_PiecesAreKnownWords ==
    /\ \A f \in ReturnedFrames :
          Len(f.result) >= 2 =>
              \A k \in 1..Len(f.result) :
                  /\ Len(f.result[k]) >= 2
                  /\ freq[lower(f.result[k])] >= 30
                  /\ score(freq, f.result[k]) # 0
    /\ \A f \in Frames : \A k \in 1..Len(f.log) : f.log[k].i >= 2

\* A split of a token whose first character alone is a known token.
C10_Witness ==
    \E f \in ReturnedFrames :
        /\ Len(f.result) >= 2
        /\ freq[lower(<<f.s[1]>>)] >= 30
====
